---- MODULE Spec2Model ----
(***************************************************************************)
(* Model of app_transform.py: the batch loop that plans an aspect-ratio    *)
(* preserving fit of every image into the IG story frame, centres it on a  *)
(* gray canvas and writes it out as a numbered .jpg file.                  *)
(*                                                                         *)
(* Python's float is an IEEE-754 binary64.  The program divides and        *)
(* multiplies floats and truncates the results with int(), so the model    *)
(* carries binary64 arithmetic (round to nearest, ties to even) on         *)
(* arbitrary-precision naturals.  Exponent range is not modelled: every    *)
(* value the program computes lies far inside the normal range.            *)
(***************************************************************************)
EXTENDS Integers, Sequences, FiniteSets

(***************************************************************************)
(* Arbitrary-precision naturals: little-endian sequences of limbs in       *)
(* 0..Base-1 without leading zero limbs; <<>> is zero.                     *)
(***************************************************************************)
Base == 32768

RECURSIVE Pow2(_)
Pow2(k) == IF k = 0 THEN 1 ELSE 2 * Pow2(k - 1)

RECURSIVE BigNorm(_)
BigNorm(a) ==
  IF a = <<>> THEN <<>>
  ELSE IF a[Len(a)] = 0 THEN BigNorm(SubSeq(a, 1, Len(a) - 1))
  ELSE a

RECURSIVE BigFromInt(_)
BigFromInt(n) ==
  IF n = 0 THEN <<>> ELSE <<n % Base>> \o BigFromInt(n \div Base)

RECURSIVE BigToInt(_)
BigToInt(a) ==
  IF a = <<>> THEN 0 ELSE a[1] + Base * BigToInt(Tail(a))

Limb(a, i) == IF i <= Len(a) THEN a[i] ELSE 0

\* -1, 0, 1 as a < b, a = b, a > b
RECURSIVE BigCmpFrom(_, _, _)
BigCmpFrom(a, b, i) ==
  IF i = 0 THEN 0
  ELSE IF a[i] < b[i] THEN -1
  ELSE IF a[i] > b[i] THEN 1
  ELSE BigCmpFrom(a, b, i - 1)

BigCmp(a, b) ==
  IF Len(a) < Len(b) THEN -1
  ELSE IF Len(a) > Len(b) THEN 1
  ELSE BigCmpFrom(a, b, Len(a))

RECURSIVE BigAddFrom(_, _, _, _)
BigAddFrom(a, b, i, carry) ==
  IF i > Len(a) /\ i > Len(b)
  THEN IF carry = 0 THEN <<>> ELSE <<carry>>
  ELSE LET s == Limb(a, i) + Limb(b, i) + carry
       IN  <<s % Base>> \o BigAddFrom(a, b, i + 1, s \div Base)

BigAdd(a, b) == BigAddFrom(a, b, 1, 0)

\* a - b for a >= b
RECURSIVE BigSubFrom(_, _, _, _)
BigSubFrom(a, b, i, borrow) ==
  IF i > Len(a) THEN <<>>
  ELSE LET d == a[i] - Limb(b, i) - borrow
       IN  IF d < 0 THEN <<d + Base>> \o BigSubFrom(a, b, i + 1, 1)
                    ELSE <<d>> \o BigSubFrom(a, b, i + 1, 0)

BigSub(a, b) == BigNorm(BigSubFrom(a, b, 1, 0))

\* a * d for a limb-sized d
RECURSIVE BigMulSmallFrom(_, _, _, _)
BigMulSmallFrom(a, d, i, carry) ==
  IF i > Len(a)
  THEN IF carry = 0 THEN <<>> ELSE <<carry>>
  ELSE LET p == a[i] * d + carry
       IN  <<p % Base>> \o BigMulSmallFrom(a, d, i + 1, p \div Base)

BigMulSmall(a, d) == IF d = 0 THEN <<>> ELSE BigMulSmallFrom(a, d, 1, 0)

RECURSIVE BigMulFrom(_, _, _)
BigMulFrom(a, b, j) ==
  IF j > Len(b) THEN <<>>
  ELSE BigAdd(BigMulSmall(a, b[j]),
              LET rest == BigMulFrom(a, b, j + 1)
              IN  IF rest = <<>> THEN <<>> ELSE <<0>> \o rest)

BigMul(a, b) == BigMulFrom(a, b, 1)

\* floor(a / d) for a limb-sized d > 0, most significant limb first
RECURSIVE BigDivSmallFrom(_, _, _, _)
BigDivSmallFrom(a, d, i, rem) ==
  IF i = 0 THEN <<>>
  ELSE LET cur == rem * Base + a[i]
       IN  BigDivSmallFrom(a, d, i - 1, cur % d) \o <<cur \div d>>

BigDivSmall(a, d) == BigNorm(BigDivSmallFrom(a, d, Len(a), 0))

\* a * 2^k
BigShl(a, k) ==
  IF a = <<>> THEN <<>>
  ELSE [j \in 1..(k \div 15) |-> 0] \o BigMulSmall(a, Pow2(k % 15))

\* floor(a / 2^k)
BigShr(a, k) ==
  IF Len(a) <= k \div 15 THEN <<>>
  ELSE BigDivSmall(SubSeq(a, (k \div 15) + 1, Len(a)), Pow2(k % 15))

RECURSIVE IntBitLen(_)
IntBitLen(n) == IF n = 0 THEN 0 ELSE 1 + IntBitLen(n \div 2)

BigBitLen(a) ==
  IF a = <<>> THEN 0 ELSE 15 * (Len(a) - 1) + IntBitLen(a[Len(a)])

BigIsOdd(a) == a # <<>> /\ a[1] % 2 = 1

(***************************************************************************)
(* binary64.  A float is [m, e] with value m * 2^e, where m is zero or has *)
(* exactly 53 bits.  All floats of the program are non-negative.           *)
(***************************************************************************)
FZero == [m |-> <<>>, e |-> 0]

\* The float nearest to (q + s) * 2^e, where 0 <= s < 1 and s > 0 iff sticky:
\* round to nearest, ties to even.
FRound(q, sticky, e) ==
  IF q = <<>> THEN FZero
  ELSE LET len == BigBitLen(q)
       IN  IF len <= 53
           THEN [m |-> BigShl(q, 53 - len), e |-> e - (53 - len)]
           ELSE LET drop == len - 53
                    hi   == BigShr(q, drop)
                    low  == BigSub(q, BigShl(hi, drop))
                    half == BigShl(<<1>>, drop - 1)
                    c    == BigCmp(low, half)
                    up   == c = 1 \/ (c = 0 /\ (sticky \/ BigIsOdd(hi)))
                    r    == IF up THEN BigAdd(hi, <<1>>) ELSE hi
                IN  IF BigBitLen(r) = 54
                    THEN [m |-> BigShr(r, 1), e |-> e + drop + 1]
                    ELSE [m |-> r, e |-> e + drop]

\* Python float(n) for an int n >= 0
float(n) == FRound(BigFromInt(n), FALSE, 0)

\* Python x * y
FMul(x, y) == FRound(BigMul(x.m, y.m), FALSE, x.e + y.e)

\* One binary digit of long division: s.r is the running remainder (already
\* doubled), s.q the digits produced so far.
FDivStep(s, b) ==
  IF BigCmp(s.r, b) >= 0
  THEN [r |-> BigMulSmall(BigSub(s.r, b), 2), q |-> BigAdd(BigMulSmall(s.q, 2), <<1>>)]
  ELSE [r |-> BigMulSmall(s.r, 2), q |-> BigMulSmall(s.q, 2)]

\* steps more digits; once the remainder is zero all further digits are zero
RECURSIVE FDivBits(_, _, _)
FDivBits(s, b, steps) ==
  IF s.r = <<>> THEN [r |-> <<>>, q |-> BigShl(s.q, steps)]
  ELSE IF steps = 0 THEN s
  ELSE FDivBits(FDivStep(s, b), b, steps - 1)

\* Python x / y for y > 0: floor(x.m * 2^54 / y.m) has 54 or 55 bits, which
\* with the sticky remainder decides the rounding to 53
FDiv(x, y) ==
  IF x.m = <<>> THEN FZero
  ELSE LET d == FDivBits([r |-> x.m, q |-> <<>>], y.m, 55)
       IN  FRound(d.q, d.r # <<>>, x.e - y.e - 54)

\* Python int(x): truncation toward zero
int(x) ==
  IF x.e >= 0 THEN BigToInt(BigShl(x.m, x.e))
  ELSE BigToInt(BigShr(x.m, 0 - x.e))

(***************************************************************************)
(* Bounds of the model                                                     *)
(***************************************************************************)
\* longest directory listing of the batch specification
MaxImages == 2
\* heights and widths 1..MaxSmallDim are planned besides the ones in EdgeDims
MaxSmallDim == 3

\* paths that cv2.imread cannot decode (it returns None)
Unreadable == <<0, 0>>

\* contents of the files of the batch specification, as (height, width)
BatchImages ==
  {Unreadable, <<1000, 1000>>, <<100, 100>>, <<300, 300>>, <<600, 810>>,
   <<1, 811>>, <<11, 9>>, <<1000, 300>>}

\* heights and widths around the thresholds of the plan
EdgeDims ==
  {9, 11, 100, 300, 405, 809, 810, 811, 1000, 1439, 1440, 1441, 1921, 2000}

PlanDims == (1..MaxSmallDim) \cup EdgeDims

PlanImages == {Unreadable} \cup (PlanDims \X PlanDims)

(***************************************************************************)
(* Initialize variables (module level of the program)                      *)
(***************************************************************************)
ig_defined_res == <<1920, 1080>>

\* .75 = 3 * 2^-2
screen_factor == FRound(<<3>>, FALSE, -2)

scale_tolerance == 2

\* a dict: a function from the keys present to their values
EmptyDict == [k \in {} |-> 0]

Put(d, k, v) == [x \in DOMAIN d \cup {k} |-> IF x = k THEN v ELSE d[x]]

\* the dict after assigning every key of the record r
PutAll(d, r) ==
  [x \in DOMAIN d \cup DOMAIN r |-> IF x \in DOMAIN r THEN r[x] ELSE d[x]]

Restrict(d, K) == [x \in K \cap DOMAIN d |-> d[x]]

\* the formatted execution_datetime of the run
exec_date_time == "runDate"

VARIABLES
  meme_list,   \* the listing of extract_dir: files with a path and a content
  i,           \* the loop variable of the main loop
  pc,          \* the call the main loop makes next, "done" or "error"
  img_vars,    \* the one module-level dict all three functions write to
  files,       \* output directory: file name -> the canvas written to it
  writes,      \* history: the file names in the order they were written
  decoded,     \* history: the loop indexes whose image was decoded
  failedAt     \* history: loop index of the first step that failed, or -1

vars == <<meme_list, i, pc, img_vars, files, writes, decoded, failedAt>>

(***************************************************************************)
(* resize_type                                                             *)
(***************************************************************************)
NoneImg == [shape |-> <<>>, src |-> 0]

\* cv2.imread: the pixel buffer of a file, None when it cannot be decoded
imread(file) ==
  IF file.content = Unreadable THEN NoneImg
  ELSE [shape |-> <<file.content[1], file.content[2], 3>>, src |-> file.path]

\* the plan without the height-first fallback
proposed_res_width_only(img_res, img_aspect_ratio, defined_res, sf) ==
  LET proposed_width == int(FMul(sf, float(defined_res[2])))
  IN  <<int(FDiv(float(proposed_width), img_aspect_ratio)), proposed_width>>

\* (height, width) proposed for an image of resolution img_res
proposed_res(img_res, img_aspect_ratio, defined_res, sf) ==
  LET proposed_width  == int(FMul(sf, float(defined_res[2])))
      proposed_height == int(FDiv(float(proposed_width), img_aspect_ratio))
  IN  IF proposed_height <= defined_res[1]
      THEN <<proposed_height, proposed_width>>
      ELSE LET height2 == int(FMul(sf, float(defined_res[1])))
               width2  == int(FMul(float(height2), img_aspect_ratio))
           IN  <<height2, width2>>

proposed_resize_dir(res, img_res) ==
  IF res[2] <= img_res[2] THEN "shrink" ELSE "scale"

proposed_resize_factor(res, img_res) ==
  int(FDiv(float(res[2]), float(img_res[2])))

\* the tolerance check that writes nothing for a shrink
set_resize_validity_scale_only(d) ==
  IF d["proposed_resize_dir"] = "scale"
  THEN IF d["proposed_resize_factor"] <= d["scale_tolerance"]
       THEN Put(d, "resize_validity", "True")
       ELSE Put(d, "resize_validity", "False")
  ELSE d

\* the dict after the tolerance check; True, False and None are written as
\* strings
set_resize_validity(d) ==
  IF d["proposed_resize_dir"] = "scale"
  THEN IF d["proposed_resize_factor"] <= d["scale_tolerance"]
       THEN Put(d, "resize_validity", "True")
       ELSE Put(d, "resize_validity", "False")
  ELSE IF d["proposed_resize_dir"] = "shrink"
       THEN Put(d, "resize_validity", "None")
       ELSE d

\* The dict after the call and whether the call raised.  On an undecodable
\* file img_obj is None and .shape raises before anything else is stored;
\* otherwise every key below is assigned, resize_validity last.
resize_type(d, file, defined_res, sf, tol) ==
  LET img_obj == imread(file)
  IN  IF img_obj = NoneImg
      THEN [raised |-> TRUE, dict |-> Put(d, "img_obj", img_obj)]
      ELSE
      LET img_res == SubSeq(img_obj.shape, 1, 2)
          img_aspect_ratio == FDiv(float(img_res[2]), float(img_res[1]))
          res == proposed_res(img_res, img_aspect_ratio, defined_res, sf)
      IN  [raised |-> FALSE,
           dict |-> set_resize_validity(PutAll(d,
             [img_obj                |-> img_obj,
              img_res                |-> img_res,
              img_aspect_ratio       |-> img_aspect_ratio,
              defined_res            |-> defined_res,
              screen_factor          |-> sf,
              proposed_res           |-> res,
              proposed_resize_dir    |-> proposed_resize_dir(res, img_res),
              scale_tolerance        |-> tol,
              proposed_resize_factor |-> proposed_resize_factor(res, img_res)]))]

(***************************************************************************)
(* add_pip_vars                                                            *)
(***************************************************************************)
\* np.full: a fresh buffer of one colour.  A buffer is its shape, its fill
\* and the regions pasted into it, in order.
np_full(height, width, fill_value) ==
  [shape |-> <<height, width, 3>>, fill |-> fill_value, pastes |-> <<>>]

\* int(n / 2) for the numpy float n / 2: truncation toward zero
int_half(n) == IF n >= 0 THEN n \div 2 ELSE 0 - ((0 - n) \div 2)

\* the offsets with the two extents exchanged
pip_coords_swapped(defined_res, res) ==
  LET y1 == int_half(defined_res[1] - res[1])
      x1 == int_half(defined_res[2] - res[2])
  IN  [x1 |-> x1, x2 |-> x1 + res[1], y1 |-> y1, y2 |-> y1 + res[2]]

pip_coords(defined_res, res) ==
  LET y1 == int_half(defined_res[1] - res[1])
      x1 == int_half(defined_res[2] - res[2])
  IN  [x1 |-> x1, x2 |-> x1 + res[2], y1 |-> y1, y2 |-> y1 + res[1]]

\* add_pip_vars that keeps a canvas already in the dict
add_pip_vars_reuse(d) ==
  LET d1 == IF "canvas" \in DOMAIN d THEN d
            ELSE Put(d, "canvas",
                     np_full(d["defined_res"][1], d["defined_res"][2], 128))
  IN  Put(d1, "pip_coords", pip_coords(d1["defined_res"], d1["proposed_res"]))

add_pip_vars(d) ==
  LET height == d["defined_res"][1]
      width  == d["defined_res"][2]
      d1     == Put(d, "canvas", np_full(height, width, 128))
  IN  Put(d1, "pip_coords", pip_coords(d1["defined_res"], d1["proposed_res"]))

(***************************************************************************)
(* process_image                                                           *)
(***************************************************************************)
\* cv2.resize raises when the requested size has a zero component
resize_raises(d) == d["proposed_res"][1] = 0 \/ d["proposed_res"][2] = 0

resized_img(d) ==
  [shape |-> <<d["proposed_res"][1], d["proposed_res"][2], 3>>,
   src   |-> d["img_obj"].src]

\* processed_img[y1:y2, x1:x2] = resized_img on the canvas object itself
paste(canvas, coords, img) ==
  [canvas EXCEPT !.pastes = Append(@, [rect |-> coords, img |-> img])]

\* the destination without the sequence index
file_dest_fixed(date, iter) == <<date, 0, ".jpg">>

file_dest(date, iter) == <<date, iter, ".jpg">>

\* what makedirs and imwrite can do: imwrite reports a failed write by
\* returning False, which raises nothing
Outcomes == {"saved", "imwrite_false", "imwrite_raise", "makedirs_raise"}

(***************************************************************************)
(* Application Main                                                        *)
(***************************************************************************)
Listing(n, Images) ==
  {[k \in 1..n |-> [path |-> k, content |-> c[k]]] : c \in [1..n -> Images]}

InitRest ==
  /\ i = 0
  /\ pc = IF Len(meme_list) = 0 THEN "done" ELSE "resize_type"
  /\ img_vars = EmptyDict
  /\ files = EmptyDict
  /\ writes = <<>>
  /\ decoded = <<>>
  /\ failedAt = -1

Init ==
  /\ meme_list \in UNION {Listing(n, BatchImages) : n \in 0..MaxImages}
  /\ InitRest

\* one file of any planned resolution
InitPlan ==
  /\ meme_list \in Listing(1, PlanImages)
  /\ InitRest

Fail == IF failedAt = -1 THEN i ELSE failedAt

ResizeType ==
  /\ pc = "resize_type"
  /\ LET r == resize_type(img_vars, meme_list[i + 1], ig_defined_res,
                          screen_factor, scale_tolerance)
     IN  /\ img_vars' = r.dict
         /\ IF r.raised
            THEN /\ pc' = "error"
                 /\ failedAt' = Fail
                 /\ decoded' = decoded
            ELSE /\ pc' = "add_pip_vars"
                 /\ failedAt' = failedAt
                 /\ decoded' = Append(decoded, i)
  /\ UNCHANGED <<meme_list, i, files, writes>>

AddPipVars ==
  /\ pc = "add_pip_vars"
  /\ img_vars' = add_pip_vars(img_vars)
  /\ pc' = "process_image"
  /\ UNCHANGED <<meme_list, i, files, writes, decoded, failedAt>>

NextCall == IF i + 1 < Len(meme_list) THEN "resize_type" ELSE "done"

ProcessImage ==
  /\ pc = "process_image"
  /\ IF resize_raises(img_vars)
     THEN /\ pc' = "error"
          /\ failedAt' = Fail
          /\ UNCHANGED <<img_vars, files, writes, i>>
     ELSE \E outcome \in Outcomes :
          LET processed_img == paste(img_vars["canvas"], img_vars["pip_coords"],
                                     resized_img(img_vars))
              dest == file_dest(exec_date_time, i)
          IN  /\ img_vars' = Put(img_vars, "canvas", processed_img)
              /\ IF outcome = "saved"
                 THEN /\ files' = Put(files, dest, processed_img)
                      /\ writes' = Append(writes, dest)
                      /\ failedAt' = failedAt
                 ELSE /\ UNCHANGED <<files, writes>>
                      /\ failedAt' = Fail
              /\ IF outcome \in {"imwrite_raise", "makedirs_raise"}
                 THEN pc' = "error" /\ i' = i
                 ELSE pc' = NextCall /\ i' = IF NextCall = "done" THEN i ELSE i + 1
  /\ UNCHANGED <<meme_list, decoded>>

Next == ResizeType \/ AddPipVars \/ ProcessImage

Spec == Init /\ [][Next]_vars

PlanSpec == InitPlan /\ [][Next]_vars

(***************************************************************************)
(* Properties                                                              *)
(***************************************************************************)
Get(d, k) == IF k \in DOMAIN d THEN d[k] ELSE "absent"

\* img_vars holds the plan of a decoded image
Planned ==
  /\ {"img_obj", "img_res", "proposed_res"} \subseteq DOMAIN img_vars
  /\ img_vars["img_obj"] # NoneImg

srcH == img_vars["img_res"][1]
srcW == img_vars["img_res"][2]
dstH == img_vars["proposed_res"][1]
dstW == img_vars["proposed_res"][2]

\* the file the loop is at
Current == meme_list[i + 1]

\* C1: every planned destination fits the frame: its height is at most 1920
\* and its width at most 1080, whichever branch produced it.
C1_Fit == Planned => dstH <= 1920 /\ dstW <= 1080

\* a destination of the height-first fallback
C1_Witness == Planned /\ dstH = 1440 /\ dstW < 810 /\ dstW > 0

\* C2: every planned destination has height >= 1 and width >= 1.
C2_Positive == Planned => dstH >= 1 /\ dstW >= 1

OutName(k) == <<"runDate", k, ".jpg">>

\* C3: when the run completes and no step failed, the files written are
\* exactly runDate_0.jpg .. runDate_{N-1}.jpg, written in that order, file k
\* holding the image decoded from the k-th path of the listing, also when
\* the plan of that image was an invalid scale.
C3_OneFilePerInput ==
  (pc = "done" /\ failedAt = -1) =>
    /\ writes = [k \in 1..Len(meme_list) |-> OutName(k - 1)]
    /\ DOMAIN files = {OutName(k - 1) : k \in 1..Len(meme_list)}
    /\ \A k \in 1..Len(meme_list) :
         /\ Len(files[OutName(k - 1)].pastes) = 1
         /\ files[OutName(k - 1)].pastes[1].img.src = meme_list[k].path

\* a completed run of the longest listing whose last plan is an invalid scale
C3_Witness ==
  /\ pc = "done" /\ failedAt = -1
  /\ Len(meme_list) = MaxImages
  /\ Len(writes) = MaxImages
  /\ Get(img_vars, "resize_validity") = "False"

\* C4: once the step of the image at index k has failed the run is in the
\* error state, no file of index >= k exists and no image after k has been
\* decoded.
C4_AbortOnFirstFailure ==
  failedAt # -1 =>
    /\ pc = "error"
    /\ \A name \in DOMAIN files : name[2] < failedAt
    /\ \A k \in 1..Len(decoded) : decoded[k] <= failedAt

\* C5: after planning, the direction is shrink exactly when the destination
\* width is at most the source width, and resize_validity is None exactly
\* for shrink and the truth of floor(dstW / srcW) <= 2 for scale.
C5_DirectionValidity ==
  (Planned /\ pc \in {"add_pip_vars", "process_image"}) =>
    /\ Get(img_vars, "proposed_resize_dir") \in {"shrink", "scale"}
    /\ Get(img_vars, "proposed_resize_dir") = "shrink" <=> dstW <= srcW
    /\ Get(img_vars, "resize_validity") = "None"
         <=> Get(img_vars, "proposed_resize_dir") = "shrink"
    /\ Get(img_vars, "proposed_resize_dir") = "scale" =>
         Get(img_vars, "resize_validity") =
           IF dstW \div srcW <= 2 THEN "True" ELSE "False"

\* a shrink (at equal widths) planned right after an invalid scale
C5_Witness ==
  /\ Planned /\ pc = "add_pip_vars" /\ i = 1
  /\ meme_list[1].content = <<100, 100>>
  /\ dstW = srcW
  /\ Get(img_vars, "resize_validity") = "None"

InsideFrame(rect) ==
  /\ 0 <= rect.x1 /\ rect.x2 <= 1080
  /\ 0 <= rect.y1 /\ rect.y2 <= 1920

\* C6: the offsets span exactly the destination and lie inside the frame,
\* and every region pasted has the shape of the buffer pasted into it.
C6_OffsetRect ==
  /\ pc = "process_image" =>
       /\ img_vars["pip_coords"].x2 - img_vars["pip_coords"].x1 = dstW
       /\ img_vars["pip_coords"].y2 - img_vars["pip_coords"].y1 = dstH
       /\ InsideFrame(img_vars["pip_coords"])
  /\ \A name \in DOMAIN files : \A k \in 1..Len(files[name].pastes) :
       LET p == files[name].pastes[k]
       IN  /\ p.rect.y2 - p.rect.y1 = p.img.shape[1]
           /\ p.rect.x2 - p.rect.x1 = p.img.shape[2]
           /\ InsideFrame(p.rect)

\* a written file whose image is off centre by the truncated half pixel
C6_Witness ==
  \E name \in DOMAIN files :
    /\ Len(files[name].pastes) = 1
    /\ files[name].pastes[1].rect.y1 + files[name].pastes[1].rect.y2 = 1919

\* C7: a scale accepted by the tolerance check is at most scale_tolerance
\* times wider than the source.
C7_Tolerance ==
  (Planned /\ Get(img_vars, "resize_validity") = "True") => dstW <= 2 * srcW

PlanKeys ==
  {"img_obj", "img_res", "img_aspect_ratio", "defined_res", "screen_factor",
   "proposed_res", "proposed_resize_dir", "scale_tolerance",
   "proposed_resize_factor", "resize_validity"}

\* the dicts and the output of a file processed alone, from an empty img_vars
AlonePlan(file) ==
  resize_type(EmptyDict, file, ig_defined_res, screen_factor,
              scale_tolerance).dict

AlonePip(file) == add_pip_vars(AlonePlan(file))

AloneOut(file) ==
  LET d == AlonePip(file)
  IN  paste(d["canvas"], d["pip_coords"], resized_img(d))

\* C8: whatever was processed before, the plan, the offsets and the canvas
\* of an image are those of the image processed alone, and every file holds
\* one paste, of its own image, on a canvas filled with 128.
C8_NoLeak ==
  /\ pc = "add_pip_vars" =>
       Restrict(img_vars, PlanKeys) = AlonePlan(Current)
  /\ pc = "process_image" => img_vars = AlonePip(Current)
  /\ \A k \in 1..Len(meme_list) :
       OutName(k - 1) \in DOMAIN files =>
         /\ files[OutName(k - 1)] = AloneOut(meme_list[k])
         /\ files[OutName(k - 1)].fill = 128
         /\ Len(files[OutName(k - 1)].pastes) = 1
         /\ files[OutName(k - 1)].pastes[1].img.src = meme_list[k].path

\* the second of two different images has been written
C8_Witness ==
  /\ Len(meme_list) >= 2
  /\ meme_list[1].content # meme_list[2].content
  /\ {OutName(0), OutName(1)} \subseteq DOMAIN files

\* C9: the derived axis is the floor of the exact aspect-preserving value:
\* either the width is 810 and the height floor(810 * srcH / srcW), or the
\* height is 1440 and the width floor(1440 * srcW / srcH).
C9_Floor ==
  Planned =>
    \/ dstW = 810 /\ dstH = (810 * srcH) \div srcW
    \/ dstH = 1440 /\ dstW = (1440 * srcW) \div srcH

\* C10: comparing heights classifies as comparing widths does.
C10_AxisIndependent ==
  Planned => (dstW <= srcW <=> dstH <= srcH)

====
